---- MODULE Spec2Model ----
(***************************************************************************)
(* cruisereplay: the four feed sequences (Evt, Sfl, Underway, SeaLog) and  *)
(* their constructors, the replay scheduler (rootCmd.Run, minTime,         *)
(* startEmitter) and the coordinator that waits for the drivers and        *)
(* closes the feeds.                                                       *)
(*                                                                         *)
(* Time is counted in whole seconds.  ZeroTime is Go's time.Time{} (year   *)
(* 1); real record times are Epoch, Epoch+1, ... and lie more than one     *)
(* MaxDuration after ZeroTime, as every real date does (292 years).        *)
(***************************************************************************)
EXTENDS Integers, Sequences, FiniteSets, TLC

\* ------------------------------------------------------------------ bounds
MaxLen == 2          \* records of one feed
MaxRecs == 2         \* records of all feeds together
MaxT == 1            \* record times are Epoch .. Epoch+MaxT
MaxFiles == 2        \* SFL source files
MaxDuration == 12    \* largest time.Duration (int64 nanoseconds, scaled)
StackLimit == 3      \* nested calls the goroutine stack holds (scaled)
MaxLate == 1         \* seconds a due timer may still be kept waiting
MaxUnits == 3        \* units of input one constructor reads
MaxFrac == 1         \* an underway time has 0 .. MaxFrac parts of a second

\* ------------------------------------------------------- program constants
Grace == 5           \* time.ParseDuration("5s")

MinDuration == 0 - MaxDuration - 1
ZeroTime == 0
Epoch == MaxDuration + 1

emitters == <<"evt", "sfl", "underway", "seaflowlog">>
FeedNames == {emitters[k] : k \in 1..Len(emitters)}

\* warp factors, as numerator/denominator: 1.0, 2.0 and 0.5
Warps == {<<1, 1>>, <<2, 1>>, <<1, 2>>}

\* what the operating system answers to one Emit(): "ok", or the call that fails
IO == {"ok", "mkdir", "open", "write"}

VARIABLES
  input,        \* input[f]: the units the constructor of feed f is handed
  warnings,     \* warnings[f]: Warnings() of feed f
  data,         \* data[f]: the records of feed f, each [time, idx]
  paths,        \* Sfl.paths: the source files that had a header line
  i,            \* i[f]: the cursor of feed f
  file,         \* file[f]: Sfl.file / SeaLog.file / Underway.conn: [st, name]
  startFlag,    \* --start, ZeroTime when not given
  warp,         \* --warp
  cruiseStart,  \* cruise-time origin
  replayStart,  \* replay-time origin
  now,          \* the replay clock
  pc,           \* pc[f]: where the driver of feed f is
  timer,        \* timer[f]: the instant the driver's timer is due
  mainpc,       \* where rootCmd.Run is
  received,     \* completion signals the coordinator has received
  proc,         \* "running", "exited", or how the process died
  log,          \* log[f]: history of the Emit() calls of the driver of f
  closeCalls,   \* closeCalls[f]: deferred Close() calls made on f
  terminal,     \* terminal[f]: Next() has returned false on f
  ret           \* the last call made on a feed and what it returned

vars == <<input, warnings, data, paths, i, file, startFlag, warp, cruiseStart, replayStart, now,
          pc, timer, mainpc, received, proc, log, closeCalls, terminal, ret>>

\* ------------------------------------------------------------ time package
IsZero(t) == t = ZeroTime
Before(t, u) == t < u

\* Time.Sub saturates at the largest and smallest Duration
Sub(t, u) ==
  IF t - u > MaxDuration THEN MaxDuration
  ELSE IF t - u < MinDuration THEN MinDuration
  ELSE t - u

\* float64(int64): the largest int64 is not a float64 and rounds up to 2^63
ToFloat(d) == IF d >= MaxDuration THEN MaxDuration + 1 ELSE d

\* x / y for y > 0, truncated toward zero as a float-to-integer conversion does
Quot(x, y) == IF x >= 0 THEN x \div y ELSE 0 - ((0 - x) \div y)

\* time.Duration(float64): a value outside int64 converts to the smallest int64
\* on amd64, the only architecture build.sh builds for
FromFloat(q) == IF q > MaxDuration \/ q < MinDuration THEN MinDuration ELSE q

\* ------------------------------------------------------------- feed records
Rec(t, k) == [time |-> t, idx |-> k]
NoFile == [st |-> "nil", name |-> 0]
Opened(n) == [st |-> "open", name |-> n]
LogPath == 1          \* <outDir>/logs/SFlog.txt

\* an insertion that puts x in front of the records of its own time
RECURSIVE InsertStable_TiesFirst(_, _)
InsertStable_TiesFirst(s, x) ==
  IF s = <<>> THEN <<x>>
  ELSE IF ~Before(s[Len(s)].time, x.time)
       THEN Append(InsertStable_TiesFirst(SubSeq(s, 1, Len(s) - 1), x), s[Len(s)])
       ELSE Append(s, x)

\* sort.SliceStable(data, time.Before): stable insertion of x behind every
\* record that is not after it
RECURSIVE InsertStable(_, _)
InsertStable(s, x) ==
  IF s = <<>> THEN <<x>>
  ELSE IF Before(x.time, s[Len(s)].time)
       THEN Append(InsertStable(SubSeq(s, 1, Len(s) - 1), x), s[Len(s)])
       ELSE Append(s, x)

RECURSIVE SortStable(_)
SortStable(s) ==
  IF s = <<>> THEN <<>>
  ELSE InsertStable(SortStable(SubSeq(s, 1, Len(s) - 1)), s[Len(s)])

\* NewEvt without its sort
NewEvt_Unsorted(files) == files

\* NewEvt that leaves out a file whose name does not parse
NewEvt_SkipBad(files) == SortStable(SelectSeq(files, LAMBDA u : ~IsZero(u.time)))

NewEvt(files) == SortStable(files)
NewSfl(lines) == SortStable(lines)
NewSeaLog(events) == SortStable(events)

\* --------------------------------------------------------------- ingestion
\* A unit of input carries what the reader makes of it: the time its timestamp
\* parses to, its payload `data` (the file path or the line text, told apart
\* by a number) and, where the reader classifies it, how.

\* NewEvt: a file whose name does not parse gets a Warning and the zero time,
\* and is kept
EvtWarnings(files) == SelectSeq(files, LAMBDA u : IsZero(u.time))

\* a reader that gives up a file at its first bad line
SflFileRecords_StopAtBad(lines, idx) ==
  LET rec(n) == [time |-> lines[n].time, idx |-> idx, data |-> lines[n].data,
                 hdr |-> (n + 1 = 2)]
      F[n \in 0..Len(lines)] ==
        IF n = 0 THEN <<>>
        ELSE IF \A m \in 1..n : lines[m].kind = "ok" THEN Append(F[n - 1], rec(n))
             ELSE F[n - 1]
  IN F[Len(lines)]

\* NewSfl, one file: the records of the data lines that qualify and parse;
\* lines[n] is line n + 1 of the file; the header is put before line 2
SflFileRecords(lines, idx) ==
  LET rec(n) == [time |-> lines[n].time, idx |-> idx, data |-> lines[n].data,
                 hdr |-> (n + 1 = 2)]
      F[n \in 0..Len(lines)] ==
        IF n = 0 THEN <<>>
        ELSE IF lines[n].kind = "ok" THEN Append(F[n - 1], rec(n)) ELSE F[n - 1]
  IN F[Len(lines)]

\* NewSfl, one file: a Warning for each data line that does not qualify
\* ("unparsable line") or whose timestamp does not parse
SflFileWarnings(lines) == SelectSeq(lines, LAMBDA u : u.kind # "ok")

\* NewSfl, all files: files[k] is the file of index k - 1; a file without a
\* line has no header
RECURSIVE SflRecords(_, _)
SflRecords(files, k) ==
  IF k > Len(files) THEN <<>>
  ELSE (IF files[k].hdr THEN SflFileRecords(files[k].lines, k - 1) ELSE <<>>)
       \o SflRecords(files, k + 1)

RECURSIVE SflWarnings(_, _)
SflWarnings(files, k) ==
  IF k > Len(files) THEN <<>>
  ELSE (IF files[k].hdr THEN SflFileWarnings(files[k].lines) ELSE <<>>)
       \o SflWarnings(files, k + 1)

\* s.paths: appended to at line 1 of a file
RECURSIVE SflPathsOf(_, _)
SflPathsOf(files, k) ==
  IF k > Len(files) THEN <<>>
  ELSE (IF files[k].hdr THEN <<[name |-> k, tsok |-> files[k].tsok]>> ELSE <<>>)
       \o SflPathsOf(files, k + 1)

\* NewSeaLog: an event named "unhandled" becomes a Warning, any other a record
SeaLogRecords(events) ==
  LET F[n \in 0..Len(events)] ==
        IF n = 0 THEN <<>>
        ELSE IF events[n].name # "unhandled"
             THEN Append(F[n - 1], [time |-> events[n].time, idx |-> 0,
                                    data |-> events[n].data])
             ELSE F[n - 1]
  IN F[Len(events)]

SeaLogWarnings(events) == SelectSeq(events, LAMBDA u : u.name = "unhandled")

\* An underway time has a part below the second: `time` whole seconds and
\* `frac` units of 1/(MaxFrac + 1) second.  The payload of a record is the
\* sequence of its lines: strings.Join(lines, "\n") is their concatenation.
UnderwayRec(t, q, lines) == [time |-> t, frac |-> q, idx |-> 0, data |-> lines]

\* time.Before on underway times
UnderwayBefore(a, b) ==
  Before(a.time, b.time) \/ (a.time = b.time /\ a.frac < b.frac)

\* a time left as it is
Truncate_Not(r) == [time |-> r.time, frac |-> r.frac]

\* time.Truncate(time.Second)
Truncate(r) == [time |-> r.time, frac |-> 0]

\* NewUnderway, the reading loop: a line the parser returns an error for
\* becomes a Warning, a line it marks OK a record, any other line nothing
UnderwayAccepted(lines) ==
  LET F[n \in 0..Len(lines)] ==
        IF n = 0 THEN <<>>
        ELSE IF lines[n].res = "ok"
             THEN Append(F[n - 1],
                         UnderwayRec(lines[n].time, lines[n].frac, <<lines[n].data>>))
             ELSE F[n - 1]
  IN F[Len(lines)]

UnderwayWarnings(lines) == SelectSeq(lines, LAMBDA u : u.res = "err")

\* NewUnderway, sort.SliceStable(u.data, time.Before)
RECURSIVE UnderwayInsert(_, _)
UnderwayInsert(s, x) ==
  IF s = <<>> THEN <<x>>
  ELSE IF UnderwayBefore(x, s[Len(s)])
       THEN Append(UnderwayInsert(SubSeq(s, 1, Len(s) - 1), x), s[Len(s)])
       ELSE Append(s, x)

RECURSIVE UnderwaySort(_)
UnderwaySort(s) ==
  IF s = <<>> THEN <<>>
  ELSE UnderwayInsert(UnderwaySort(SubSeq(s, 1, Len(s) - 1)), s[Len(s)])

\* a coalescing loop without the append of the last record
Coalesce_DropLast(d) ==
  IF Len(d) > 0
  THEN LET F[n \in 1..Len(d)] ==
             IF n = 1
             THEN [newdata |-> <<>>, t |-> Truncate(d[1]), lines |-> d[1].data]
             ELSE IF Truncate(d[n]) = F[n - 1].t
                  THEN [F[n - 1] EXCEPT !.lines = @ \o d[n].data]
                  ELSE [newdata |-> Append(F[n - 1].newdata,
                                           UnderwayRec(F[n - 1].t.time, F[n - 1].t.frac,
                                                       F[n - 1].lines)),
                        t |-> Truncate(d[n]),
                        lines |-> d[n].data]
       IN F[Len(d)].newdata
  ELSE d

\* NewUnderway, the coalescing loop: F[n] is newdata, t and lines after the
\* n-th record
Coalesce(d) ==
  IF Len(d) > 0
  THEN LET F[n \in 1..Len(d)] ==
             IF n = 1
             THEN [newdata |-> <<>>, t |-> Truncate(d[1]), lines |-> d[1].data]
             ELSE IF Truncate(d[n]) = F[n - 1].t
                  THEN [F[n - 1] EXCEPT !.lines = @ \o d[n].data]
                  ELSE [newdata |-> Append(F[n - 1].newdata,
                                           UnderwayRec(F[n - 1].t.time, F[n - 1].t.frac,
                                                       F[n - 1].lines)),
                        t |-> Truncate(d[n]),
                        lines |-> d[n].data]
           last == F[Len(d)]
       IN Append(last.newdata, UnderwayRec(last.t.time, last.t.frac, last.lines))
  ELSE d

NewUnderway(lines) == Coalesce(UnderwaySort(UnderwayAccepted(lines)))

\* ---------------------------------------------------------------- Earliest
Earliest(recs) == IF Len(recs) > 0 THEN recs[1].time ELSE ZeroTime

\* -------------------------------------------------------------------- Time
TimeAt(cur, recs) == IF cur >= 0 /\ Len(recs) > 0 THEN recs[cur + 1].time ELSE ZeroTime

\* -------------------------------------------------------------------- Next
\* each returns [i |-> the cursor afterwards, ok |-> the value returned]
EvtNext(cur, recs) ==
  IF cur + 1 < Len(recs) THEN [i |-> cur + 1, ok |-> TRUE] ELSE [i |-> cur, ok |-> FALSE]

\* Sfl.Next that rewinds the cursor when no record is left
SflNext_Rewind(cur, recs) ==
  IF cur + 1 < Len(recs) THEN [i |-> cur + 1, ok |-> TRUE] ELSE [i |-> -1, ok |-> FALSE]

SflNext(cur, recs) ==
  IF cur + 1 < Len(recs) THEN [i |-> cur + 1, ok |-> TRUE] ELSE [i |-> cur, ok |-> FALSE]

\* Underway.Next that steps over a record
UnderwayNext_Skip(cur, recs) ==
  IF cur + 1 < Len(recs) THEN [i |-> cur + 2, ok |-> TRUE] ELSE [i |-> cur, ok |-> FALSE]

UnderwayNext(cur, recs) ==
  IF cur + 1 < Len(recs) THEN [i |-> cur + 1, ok |-> TRUE] ELSE [i |-> cur, ok |-> FALSE]

SeaLogNext(cur, recs) ==
  IF cur + 1 < Len(recs) THEN [i |-> cur + 1, ok |-> TRUE] ELSE [i |-> cur, ok |-> FALSE]

FeedNext(f, cur, recs) ==
  CASE f = "evt" -> EvtNext(cur, recs)
    [] f = "sfl" -> SflNext(cur, recs)
    [] f = "underway" -> UnderwayNext(cur, recs)
    [] f = "seaflowlog" -> SeaLogNext(cur, recs)

\* ------------------------------------------------------------------- Close
\* each returns [file |-> the handle afterwards, err |-> an error is returned,
\*               fatal |-> "" or how the process dies, sys |-> system calls made]
Outcome(fl, e, ft, sc) == [file |-> fl, err |-> e, fatal |-> ft, sys |-> sc]

EvtClose(fl) == Outcome(fl, FALSE, "", {})

\* Sfl.Close calls itself, not s.file.Close(): with a file held it recurses
\* until the goroutine stack is exhausted; `s = nil` clears only the receiver
RECURSIVE SflCloseAt(_, _)
SflCloseAt(fl, depth) ==
  IF fl.st # "nil"
  THEN IF depth >= StackLimit
       THEN Outcome(fl, FALSE, "stack overflow", {})
       ELSE SflCloseAt(fl, depth + 1)
  ELSE Outcome(fl, FALSE, "", {})

SflClose(fl) == SflCloseAt(fl, 1)

\* net.Conn.Close on a closed connection returns an error
UnderwayClose(fl) ==
  IF fl.st # "nil"
  THEN IF fl.st = "open"
       THEN Outcome([fl EXCEPT !.st = "closed"], FALSE, "", {"close"})
       ELSE Outcome(fl, TRUE, "", {"close"})
  ELSE Outcome(fl, FALSE, "", {})

\* os.File.Close on a closed file returns os.ErrClosed; `s = nil` clears only
\* the receiver, s.file keeps pointing at the closed file
SeaLogClose(fl) ==
  IF fl.st # "nil"
  THEN IF fl.st = "open"
       THEN Outcome([fl EXCEPT !.st = "closed"], FALSE, "", {"close"})
       ELSE Outcome(fl, TRUE, "", {"close"})
  ELSE Outcome(fl, FALSE, "", {})

FeedClose(f, fl) ==
  CASE f = "evt" -> EvtClose(fl)
    [] f = "sfl" -> SflClose(fl)
    [] f = "underway" -> UnderwayClose(fl)
    [] f = "seaflowlog" -> SeaLogClose(fl)

\* -------------------------------------------------------------------- Emit
\* io is the system call that fails if this Emit() makes it, or "ok"
EvtEmit(cur, recs, fl, io) ==
  IF cur < 0 THEN Outcome(fl, FALSE, "", {})
  ELSE IF io = "mkdir" THEN Outcome(fl, TRUE, "", {"mkdir"})
  ELSE IF io = "open" THEN Outcome(fl, TRUE, "", {"mkdir", "open"})
  ELSE IF io = "write" THEN Outcome(fl, TRUE, "", {"mkdir", "open", "write"})
  ELSE Outcome(fl, FALSE, "", {"mkdir", "open", "write"})

\* the output path of an SFL source file: its day bucket and base name
OutPath(p) == p.name

SflEmit(cur, recs, pths, fl, io) ==
  IF cur < 0 THEN Outcome(fl, FALSE, "", {})
  ELSE LET rec == recs[cur + 1] IN
    IF rec.idx + 1 > Len(pths) THEN Outcome(fl, FALSE, "index out of range", {})
    ELSE IF ~pths[rec.idx + 1].tsok THEN Outcome(fl, TRUE, "", {})
    ELSE IF io = "mkdir" THEN Outcome(fl, TRUE, "", {"mkdir"})
    ELSE LET outPath == OutPath(pths[rec.idx + 1]) IN
      IF fl.st = "nil" \/ fl.name # outPath
      THEN LET c == SflClose(fl) IN
        IF c.fatal # "" THEN Outcome(fl, FALSE, c.fatal, {"mkdir"})
        ELSE IF io = "open" THEN Outcome(NoFile, TRUE, "", {"mkdir", "open"})
        ELSE Outcome(Opened(outPath), FALSE, "", {"mkdir", "open", "write"})
      ELSE Outcome(fl, FALSE, "", {"mkdir", "write"})

\* Underway.Emit without its check of the cursor
UnderwayEmit_NoCheck(cur, recs, fl, io) ==
  IF io = "write" \/ fl.st # "open" THEN Outcome(fl, TRUE, "", {"write"})
  ELSE Outcome(fl, FALSE, "", {"write"})

UnderwayEmit(cur, recs, fl, io) ==
  IF cur < 0 THEN Outcome(fl, FALSE, "", {})
  ELSE IF io = "write" \/ fl.st # "open" THEN Outcome(fl, TRUE, "", {"write"})
  ELSE Outcome(fl, FALSE, "", {"write"})

SeaLogEmit(cur, recs, fl, io) ==
  IF cur < 0 THEN Outcome(fl, FALSE, "", {})
  ELSE IF io = "mkdir" THEN Outcome(fl, TRUE, "", {"mkdir"})
  ELSE IF fl.st = "nil"
       THEN IF io = "open" THEN Outcome(NoFile, TRUE, "", {"mkdir", "open"})
            ELSE Outcome(Opened(LogPath), FALSE, "", {"mkdir", "open", "write"})
       ELSE Outcome(fl, FALSE, "", {"mkdir", "write"})

FeedEmit(f, cur, recs, pths, fl, io) ==
  CASE f = "evt" -> EvtEmit(cur, recs, fl, io)
    [] f = "sfl" -> SflEmit(cur, recs, pths, fl, io)
    [] f = "underway" -> UnderwayEmit(cur, recs, fl, io)
    [] f = "seaflowlog" -> SeaLogEmit(cur, recs, fl, io)

\* ----------------------------------------------------------------- minTime
RECURSIVE minTimeFrom(_, _, _)
minTimeFrom(ts, k, first) ==
  IF k > Len(ts) THEN first
  ELSE minTimeFrom(ts, k + 1,
                   IF IsZero(first) \/ Before(ts[k], first) THEN ts[k] ELSE first)

\* ts[k] is what Earliest() of the k-th emitter returns
minTime(ts) == minTimeFrom(ts, 1, ZeroTime)

\* ------------------------------------------------------------ startEmitter
\* a driver without the skip of early records
SkipRecord_Never(t, start) == FALSE

SkipRecord(t, start) == Before(t, start)

\* delta := e.Time().Sub(cruiseStart), then adjusted for time warp
Delta(t, start, w) == FromFloat(Quot(ToFloat(Sub(t, start)) * w[2], w[1]))

EmitTime(rstart, delta) == rstart + delta

\* time.Until(emitTime)
UntilEmit(et, clock) == Sub(et, clock)

\* a timer that fires at once
TimerDue_AtOnce(clock, d) == clock

\* the instant a timer started at clock with duration d is due
TimerDue(clock, d) == IF d > 0 THEN clock + d ELSE clock

\* ------------------------------------------------------------------ inputs
RealTimes == {Epoch + k : k \in 0..MaxT}
Range(s) == {s[k] : k \in 1..Len(s)}

\* n EVT files in discovery order; a file whose name does not parse has ZeroTime
EvtFiles(n) == [1..n -> {Rec(t, 0) : t \in {ZeroTime} \cup RealTimes}]

\* n SFL data lines of nf files in reading order, each with the index of its
\* file; every file has a header line and at least one data line
SflLines(nf, n) ==
  {s \in [1..n -> {Rec(t, k) : t \in RealTimes, k \in 0..(nf - 1)}] :
     /\ \A a, b \in 1..Len(s) : a < b => s[a].idx <= s[b].idx
     /\ {r.idx : r \in Range(s)} = 0..(nf - 1)}

SflPaths(nf) == {[k \in 1..nf |-> [name |-> k, tsok |-> b[k]]] : b \in [1..nf -> BOOLEAN]}

\* n underway records as NewUnderway leaves them: sorted, one record per second
UnderwayRecords(n) ==
  {s \in [1..n -> {Rec(t, 0) : t \in RealTimes}] :
     \A a, b \in 1..Len(s) : a < b => s[a].time < s[b].time}

\* n events of the instrument log in reading order
SeaLogEvents(n) == [1..n -> {Rec(t, 0) : t \in RealTimes}]

\* ---------------------------------------------- inputs of the constructors
\* n EVT files in discovery order, told apart by their paths 1 .. n
EvtInputs(n) ==
  {[k \in 1..n |-> [time |-> ts[k], idx |-> 0, data |-> k]] :
     ts \in [1..n -> {ZeroTime} \cup RealTimes]}

\* what NewSfl makes of a data line: it qualifies and parses to a time, it
\* does not qualify, or its timestamp does not parse
SflLineKinds ==
  {[kind |-> "ok", time |-> t] : t \in RealTimes}
    \cup {[kind |-> c, time |-> ZeroTime] : c \in {"noqualify", "noparse"}}

\* the k-th SFL file with c data lines; a file without data lines has a
\* header line or is empty
SflFiles(k, c) ==
  {[hdr |-> h, tsok |-> TRUE,
    lines |-> [n \in 1..c |-> [kind |-> x[n].kind, time |-> x[n].time, data |-> <<k, n>>]]] :
     x \in [1..c -> SflLineKinds], h \in IF c > 0 THEN {TRUE} ELSE BOOLEAN}

\* the files u, b[k] telling whether the name of the k-th gives a timestamp
SflNamed(u, b) == [k \in 1..Len(u) |-> [u[k] EXCEPT !.tsok = b[k]]]

\* the SFL files k .. nf in discovery order, with at most `left` data lines
RECURSIVE SflInputs(_, _, _)
SflInputs(k, nf, left) ==
  IF k > nf THEN {<<>>}
  ELSE UNION {{<<f>> \o rest : f \in SflFiles(k, c), rest \in SflInputs(k + 1, nf, left - c)} :
                c \in 0..left}

\* what the parser makes of an underway line
UnderwayLineKinds ==
  {[res |-> "ok", time |-> t, frac |-> q] : t \in RealTimes, q \in 0..MaxFrac}
    \cup {[res |-> r, time |-> ZeroTime, frac |-> 0] : r \in {"err", "notok"}}

\* n underway lines in file order
UnderwayInputs(n) ==
  {[k \in 1..n |-> [res |-> x[k].res, time |-> x[k].time, frac |-> x[k].frac, data |-> k]] :
     x \in [1..n -> UnderwayLineKinds]}

\* n events of the instrument log in file order
SeaLogInputs(n) ==
  {[k \in 1..n |-> [name |-> x[k].name, time |-> x[k].time, data |-> k]] :
     x \in [1..n -> {[name |-> m, time |-> t] : m \in {"event", "unhandled"}, t \in RealTimes}]}

NoRet == [op |-> "none", f |-> "", ok |-> FALSE, err |-> FALSE, fatal |-> "",
          i0 |-> -1, file0 |-> NoFile, term0 |-> FALSE, again |-> FALSE, sys |-> {},
          val |-> 0]

\* the feeds as the four constructors leave them
Constructed ==
  \E ne \in 0..MaxLen, ns \in 0..MaxLen, nu \in 0..MaxLen, nl \in 0..MaxLen :
    /\ ne + ns + nu + nl <= MaxRecs
    /\ \E nf \in 0..MaxFiles :
         \E ef \in EvtFiles(ne), sl \in SflLines(nf, ns), sp \in SflPaths(nf),
            ur \in UnderwayRecords(nu), le \in SeaLogEvents(nl) :
           /\ data = [f \in FeedNames |->
                        CASE f = "evt" -> NewEvt(ef)
                          [] f = "sfl" -> NewSfl(sl)
                          [] f = "underway" -> ur
                          [] f = "seaflowlog" -> NewSeaLog(le)]
           /\ paths = sp
           /\ input = [f \in FeedNames |-> <<>>]
           /\ warnings = [f \in FeedNames |-> IF f = "evt" THEN EvtWarnings(ef) ELSE <<>>]
           /\ i = [f \in FeedNames |-> -1]
           /\ file = [f \in FeedNames |-> IF f = "underway" THEN Opened(0) ELSE NoFile]

Init ==
  /\ Constructed
  /\ startFlag \in {ZeroTime} \cup RealTimes
  /\ warp \in Warps
  /\ cruiseStart = startFlag
  /\ replayStart = ZeroTime
  /\ now = 0
  /\ pc = [f \in FeedNames |-> "idle"]
  /\ timer = [f \in FeedNames |-> 0]
  /\ mainpc = "setup"
  /\ received = 0
  /\ proc = "running"
  /\ log = [f \in FeedNames |-> <<>>]
  /\ closeCalls = [f \in FeedNames |-> 0]
  /\ terminal = [f \in FeedNames |-> FALSE]
  /\ ret = NoRet

\* ------------------------------------------------------------- rootCmd.Run
\* origins, the done channel, one goroutine per emitter
Setup ==
  /\ proc = "running" /\ mainpc = "setup"
  /\ cruiseStart' = IF IsZero(cruiseStart)
                    THEN minTime([k \in 1..Len(emitters) |-> Earliest(data[emitters[k]])])
                    ELSE cruiseStart
  /\ replayStart' = now + Grace
  /\ pc' = [f \in FeedNames |-> "next"]
  /\ mainpc' = "recv"
  /\ UNCHANGED <<input, warnings, data, paths, i, file, startFlag, warp, now, timer, received, proc,
                 log, closeCalls, terminal, ret>>

\* the replay clock advances while a driver waits for its timer
Tick ==
  /\ proc = "running" /\ mainpc = "recv"
  /\ \E f \in FeedNames : pc[f] = "wait" /\ now < timer[f] + MaxLate
  /\ now' = now + 1
  /\ UNCHANGED <<input, warnings, data, paths, i, file, startFlag, warp, cruiseStart, replayStart,
                 pc, timer, mainpc, received, proc, log, closeCalls, terminal, ret>>

\* e.Next() returns true and the record is before the cruise start: continue
DriverSkip(f) ==
  /\ proc = "running" /\ pc[f] = "next"
  /\ LET n == FeedNext(f, i[f], data[f]) IN
       /\ n.ok
       /\ SkipRecord(TimeAt(n.i, data[f]), cruiseStart)
       /\ i' = [i EXCEPT ![f] = n.i]
  /\ UNCHANGED <<input, warnings, data, paths, file, startFlag, warp, cruiseStart, replayStart, now,
                 pc, timer, mainpc, received, proc, log, closeCalls, terminal, ret>>

\* e.Next() returns true, the delay is not negative: the timer is set
DriverSetTimer(f) ==
  /\ proc = "running" /\ pc[f] = "next"
  /\ LET n == FeedNext(f, i[f], data[f])
         t == TimeAt(n.i, data[f])
         delta == Delta(t, cruiseStart, warp)
     IN /\ n.ok
        /\ ~SkipRecord(t, cruiseStart)
        /\ ~(delta < 0)
        /\ i' = [i EXCEPT ![f] = n.i]
        /\ timer' = [timer EXCEPT
                       ![f] = TimerDue(now, UntilEmit(EmitTime(replayStart, delta), now))]
        /\ pc' = [pc EXCEPT ![f] = "wait"]
  /\ UNCHANGED <<input, warnings, data, paths, file, startFlag, warp, cruiseStart, replayStart, now,
                 mainpc, received, proc, log, closeCalls, terminal, ret>>

\* e.Next() returns true, the delay is negative: panic, the process dies
DriverPanic(f) ==
  /\ proc = "running" /\ pc[f] = "next"
  /\ LET n == FeedNext(f, i[f], data[f])
         t == TimeAt(n.i, data[f])
     IN /\ n.ok
        /\ ~SkipRecord(t, cruiseStart)
        /\ Delta(t, cruiseStart, warp) < 0
        /\ i' = [i EXCEPT ![f] = n.i]
        /\ proc' = "panic: delta < 0"
  /\ UNCHANGED <<input, warnings, data, paths, file, startFlag, warp, cruiseStart, replayStart, now,
                 pc, timer, mainpc, received, log, closeCalls, terminal, ret>>

\* a driver that returns from startEmitter when Emit() returns an error
DriverEmit_StopOnError(f) ==
  /\ proc = "running" /\ pc[f] = "wait"
  /\ now >= timer[f]
  /\ \E io \in IO :
       LET o == FeedEmit(f, i[f], data[f], paths, file[f], io) IN
         /\ file' = [file EXCEPT ![f] = o.file]
         /\ log' = [log EXCEPT ![f] = Append(@,
                      [idx |-> i[f], time |-> TimeAt(i[f], data[f]),
                       fire |-> EmitTime(replayStart, Delta(TimeAt(i[f], data[f]), cruiseStart, warp)),
                       at |-> now, err |-> o.err, fatal |-> o.fatal])]
         /\ IF o.fatal # ""
            THEN proc' = o.fatal /\ pc' = pc
            ELSE proc' = proc /\ pc' = [pc EXCEPT ![f] = IF o.err THEN "stopped" ELSE "next"]
  /\ UNCHANGED <<input, warnings, data, paths, i, startFlag, warp, cruiseStart, replayStart, now,
                 timer, mainpc, received, closeCalls, terminal, ret>>

\* the timer has fired: e.Emit(), its error is logged, back to e.Next()
DriverEmit(f) ==
  /\ proc = "running" /\ pc[f] = "wait"
  /\ now >= timer[f]
  /\ \E io \in IO :
       LET o == FeedEmit(f, i[f], data[f], paths, file[f], io) IN
         /\ file' = [file EXCEPT ![f] = o.file]
         /\ log' = [log EXCEPT ![f] = Append(@,
                      [idx |-> i[f], time |-> TimeAt(i[f], data[f]),
                       fire |-> EmitTime(replayStart, Delta(TimeAt(i[f], data[f]), cruiseStart, warp)),
                       at |-> now, err |-> o.err, fatal |-> o.fatal])]
         /\ IF o.fatal # ""
            THEN proc' = o.fatal /\ pc' = pc
            ELSE proc' = proc /\ pc' = [pc EXCEPT ![f] = "next"]
  /\ UNCHANGED <<input, warnings, data, paths, i, startFlag, warp, cruiseStart, replayStart, now,
                 timer, mainpc, received, closeCalls, terminal, ret>>

\* e.Next() returns false and the driver sends on the unbuffered done channel,
\* which it can do when the coordinator is at its receive
DriverDone(f) ==
  /\ proc = "running" /\ pc[f] = "next"
  /\ ~FeedNext(f, i[f], data[f]).ok
  /\ mainpc = "recv" /\ received < Len(emitters)
  /\ pc' = [pc EXCEPT ![f] = "done"]
  /\ received' = received + 1
  /\ mainpc' = IF received + 1 = Len(emitters) THEN "closing" ELSE "recv"
  /\ UNCHANGED <<input, warnings, data, paths, i, file, startFlag, warp, cruiseStart, replayStart, now,
                 timer, proc, log, closeCalls, terminal, ret>>

\* the deferred calls run last in, first out
NextDeferred == CHOOSE k \in 1..Len(emitters) :
                  /\ closeCalls[emitters[k]] = 0
                  /\ \A m \in (k + 1)..Len(emitters) : closeCalls[emitters[m]] > 0

\* Run returns: one deferred e.Close(), its result dropped
DeferredClose ==
  /\ proc = "running" /\ mainpc = "closing"
  /\ \E k \in 1..Len(emitters) : closeCalls[emitters[k]] = 0
  /\ LET f == emitters[NextDeferred]
         o == FeedClose(f, file[f])
     IN /\ closeCalls' = [closeCalls EXCEPT ![f] = @ + 1]
        /\ file' = [file EXCEPT ![f] = o.file]
        /\ proc' = IF o.fatal # "" THEN o.fatal ELSE proc
  /\ UNCHANGED <<input, warnings, data, paths, i, startFlag, warp, cruiseStart, replayStart, now,
                 pc, timer, mainpc, received, log, terminal, ret>>

\* every deferred call has returned: the process exits
Exit ==
  /\ proc = "running" /\ mainpc = "closing"
  /\ \A f \in FeedNames : closeCalls[f] > 0
  /\ proc' = "exited"
  /\ mainpc' = "exited"
  /\ UNCHANGED <<input, warnings, data, paths, i, file, startFlag, warp, cruiseStart, replayStart, now,
                 pc, timer, received, log, closeCalls, terminal, ret>>

Next ==
  \/ Setup
  \/ Tick
  \/ \E f \in FeedNames : DriverSkip(f)
  \/ \E f \in FeedNames : DriverSetTimer(f)
  \/ \E f \in FeedNames : DriverPanic(f)
  \/ \E f \in FeedNames : DriverEmit(f)
  \/ \E f \in FeedNames : DriverDone(f)
  \/ DeferredClose
  \/ Exit

Spec == Init /\ [][Next]_vars

\* ------------------------------------------------- the Emitter interface
\* A caller that holds one of the feeds and makes the calls of the Emitter
\* interface on it in any order.
InitFeed ==
  /\ Constructed
  /\ \E g \in FeedNames : pc = [f \in FeedNames |-> IF f = g THEN "caller" ELSE "idle"]
  /\ startFlag = ZeroTime
  /\ warp = <<1, 1>>
  /\ cruiseStart = ZeroTime
  /\ replayStart = ZeroTime
  /\ now = 0
  /\ timer = [f \in FeedNames |-> 0]
  /\ mainpc = "calls"
  /\ received = 0
  /\ proc = "running"
  /\ log = [f \in FeedNames |-> <<>>]
  /\ closeCalls = [f \in FeedNames |-> 0]
  /\ terminal = [f \in FeedNames |-> FALSE]
  /\ ret = NoRet

CallNext(f) ==
  /\ proc = "running" /\ mainpc = "calls" /\ pc[f] = "caller"
  /\ LET n == FeedNext(f, i[f], data[f]) IN
       /\ i' = [i EXCEPT ![f] = n.i]
       /\ terminal' = [terminal EXCEPT ![f] = @ \/ ~n.ok]
       /\ ret' = [op |-> "Next", f |-> f, ok |-> n.ok, err |-> FALSE, fatal |-> "",
                  i0 |-> i[f], file0 |-> file[f], term0 |-> terminal[f],
                  again |-> FALSE, sys |-> {}, val |-> 0]
  /\ UNCHANGED <<input, warnings, data, paths, file, startFlag, warp, cruiseStart, replayStart, now,
                 pc, timer, mainpc, received, proc, log, closeCalls>>

CallEmit(f) ==
  /\ proc = "running" /\ mainpc = "calls" /\ pc[f] = "caller"
  /\ \E io \in IO :
       LET o == FeedEmit(f, i[f], data[f], paths, file[f], io) IN
         /\ file' = [file EXCEPT ![f] = o.file]
         /\ proc' = IF o.fatal # "" THEN o.fatal ELSE proc
         /\ ret' = [op |-> "Emit", f |-> f, ok |-> FALSE, err |-> o.err, fatal |-> o.fatal,
                    i0 |-> i[f], file0 |-> file[f], term0 |-> terminal[f],
                    again |-> FALSE, sys |-> o.sys, val |-> 0]
  /\ UNCHANGED <<input, warnings, data, paths, i, startFlag, warp, cruiseStart, replayStart, now,
                 pc, timer, mainpc, received, log, closeCalls, terminal>>

CallClose(f) ==
  /\ proc = "running" /\ mainpc = "calls" /\ pc[f] = "caller"
  /\ LET o == FeedClose(f, file[f]) IN
       /\ file' = [file EXCEPT ![f] = o.file]
       /\ proc' = IF o.fatal # "" THEN o.fatal ELSE proc
       /\ ret' = [op |-> "Close", f |-> f, ok |-> FALSE, err |-> o.err, fatal |-> o.fatal,
                  i0 |-> i[f], file0 |-> file[f], term0 |-> terminal[f],
                  again |-> (ret.op = "Close" /\ ret.f = f), sys |-> o.sys, val |-> 0]
  /\ UNCHANGED <<input, warnings, data, paths, i, startFlag, warp, cruiseStart, replayStart, now,
                 pc, timer, mainpc, received, log, closeCalls, terminal>>

\* Time(), Earliest() and Len() read the feed and return v
Reads(f, op, v) ==
  /\ proc = "running" /\ mainpc = "calls" /\ pc[f] = "caller"
  /\ ret' = [op |-> op, f |-> f, ok |-> FALSE, err |-> FALSE, fatal |-> "",
             i0 |-> i[f], file0 |-> file[f], term0 |-> terminal[f],
             again |-> FALSE, sys |-> {}, val |-> v]
  /\ UNCHANGED <<input, warnings, data, paths, i, file, startFlag, warp, cruiseStart,
                 replayStart, now, pc, timer, mainpc, received, proc, log, closeCalls,
                 terminal>>

CallTime(f) == Reads(f, "Time", TimeAt(i[f], data[f]))
CallEarliest(f) == Reads(f, "Earliest", Earliest(data[f]))
CallLen(f) == Reads(f, "Len", Len(data[f]))

NextFeed ==
  \/ \E f \in FeedNames : CallNext(f)
  \/ \E f \in FeedNames : CallEmit(f)
  \/ \E f \in FeedNames : CallClose(f)
  \/ \E f \in FeedNames : CallTime(f)
  \/ \E f \in FeedNames : CallEarliest(f)
  \/ \E f \in FeedNames : CallLen(f)

SpecFeed == InitFeed /\ [][NextFeed]_vars

\* ----------------------------------------------------------- construction
\* One of the four constructors is handed its input and builds its feed.
\* the inputs the constructor of feed g may be handed
Inputs(g) ==
  CASE g = "evt" -> UNION {EvtInputs(n) : n \in 0..MaxUnits}
    [] g = "sfl" -> UNION {SflInputs(1, nf, MaxUnits) : nf \in 0..MaxFiles}
    [] g = "underway" -> UNION {UnderwayInputs(n) : n \in 0..MaxUnits}
    [] g = "seaflowlog" -> UNION {SeaLogInputs(n) : n \in 0..MaxUnits}

InitIngest ==
  /\ \E g \in FeedNames :
       /\ pc = [f \in FeedNames |-> IF f = g THEN "new" ELSE "idle"]
       /\ \E u \in Inputs(g) :
            \E b \in [1..(IF g = "sfl" THEN Len(u) ELSE 0) -> BOOLEAN] :
              input = [f \in FeedNames |->
                         IF f = g THEN (IF g = "sfl" THEN SflNamed(u, b) ELSE u) ELSE <<>>]
  /\ warnings = [f \in FeedNames |-> <<>>]
  /\ data = [f \in FeedNames |-> <<>>]
  /\ paths = <<>>
  /\ i = [f \in FeedNames |-> -1]
  /\ file = [f \in FeedNames |-> NoFile]
  /\ startFlag = ZeroTime
  /\ warp = <<1, 1>>
  /\ cruiseStart = ZeroTime
  /\ replayStart = ZeroTime
  /\ now = 0
  /\ timer = [f \in FeedNames |-> 0]
  /\ mainpc = "ingest"
  /\ received = 0
  /\ proc = "running"
  /\ log = [f \in FeedNames |-> <<>>]
  /\ closeCalls = [f \in FeedNames |-> 0]
  /\ terminal = [f \in FeedNames |-> FALSE]
  /\ ret = NoRet

\* what a constructor leaves: the records, the warnings, the cursor before
\* the first record
Built(f, recs, warns) ==
  /\ mainpc = "ingest" /\ pc[f] = "new"
  /\ data' = [data EXCEPT ![f] = recs]
  /\ warnings' = [warnings EXCEPT ![f] = warns]
  /\ i' = [i EXCEPT ![f] = -1]
  /\ pc' = [pc EXCEPT ![f] = "built"]

ConstructEvt ==
  /\ Built("evt", NewEvt(input["evt"]), EvtWarnings(input["evt"]))
  /\ UNCHANGED <<input, paths, file, startFlag, warp, cruiseStart, replayStart, now,
                 timer, mainpc, received, proc, log, closeCalls, terminal, ret>>

ConstructSfl ==
  /\ Built("sfl", NewSfl(SflRecords(input["sfl"], 1)), SflWarnings(input["sfl"], 1))
  /\ paths' = SflPathsOf(input["sfl"], 1)
  /\ UNCHANGED <<input, file, startFlag, warp, cruiseStart, replayStart, now,
                 timer, mainpc, received, proc, log, closeCalls, terminal, ret>>

\* the connection is dialled before the file is read
ConstructUnderway ==
  /\ Built("underway", NewUnderway(input["underway"]), UnderwayWarnings(input["underway"]))
  /\ file' = [file EXCEPT !["underway"] = Opened(0)]
  /\ UNCHANGED <<input, paths, startFlag, warp, cruiseStart, replayStart, now,
                 timer, mainpc, received, proc, log, closeCalls, terminal, ret>>

ConstructSeaLog ==
  /\ Built("seaflowlog", NewSeaLog(SeaLogRecords(input["seaflowlog"])),
           SeaLogWarnings(input["seaflowlog"]))
  /\ UNCHANGED <<input, paths, file, startFlag, warp, cruiseStart, replayStart, now,
                 timer, mainpc, received, proc, log, closeCalls, terminal, ret>>

NextIngest ==
  \/ ConstructEvt
  \/ ConstructSfl
  \/ ConstructUnderway
  \/ ConstructSeaLog

SpecIngest == InitIngest /\ [][NextIngest]_vars

\* ================================================================== claims
AllDone == received = Len(emitters) /\ \A f \in FeedNames : pc[f] = "done"

\* C1: the records a feed's driver passes to Emit() are in non-decreasing
\* record-time order, whatever the origin, the warp and the interleaving.
C1_EmitOrder ==
  \A f \in FeedNames : \A a, b \in 1..Len(log[f]) :
    a < b => log[f][a].time <= log[f][b].time

\* a feed has emitted two records with different times and finished
C1_Witness ==
  \E f \in FeedNames :
    /\ Len(log[f]) >= 2
    /\ log[f][1].time < log[f][2].time
    /\ pc[f] = "done"

\* the cursor of f is on a record before the cruise start
C2_OnEarlyRecord(f) == i[f] >= 0 /\ Before(TimeAt(i[f], data[f]), cruiseStart)

\* C2: a record strictly before the cruise origin (computed or given) is never
\* on the cursor when Emit() is called, and stepping over it sets no timer,
\* logs no emission or error, takes no time and leaves the process running.
C2_SkipsEarlyRecords ==
  /\ [](mainpc # "setup" =>
          \A f \in FeedNames :
            /\ C2_OnEarlyRecord(f) => pc[f] # "wait"
            /\ \A k \in 1..Len(log[f]) : ~Before(log[f][k].time, cruiseStart))
  /\ [][\A f \in FeedNames :
          (i'[f] # i[f] /\ Before(TimeAt(i'[f], data[f]), cruiseStart)) =>
             /\ pc'[f] = "next"
             /\ log' = log /\ timer' = timer /\ file' = file
             /\ now' = now /\ proc' = proc]_vars

\* an explicit start: a feed has stepped over an early record, emitted a later
\* one and finished
C2_Witness ==
  \E f \in FeedNames :
    /\ ~IsZero(startFlag)
    /\ \E k \in 1..Len(data[f]) : Before(data[f][k].time, cruiseStart)
    /\ Len(log[f]) >= 1
    /\ pc[f] = "done"

\* the earliest record time of every feed that has records
C3_EarliestTimes == {Earliest(data[f]) : f \in {g \in FeedNames : Len(data[g]) > 0}}

\* C3: with no explicit start, the cruise origin is the minimum of the earliest
\* record times of the feeds that have records (ZeroTime when none has).
C3_OriginIsMinEarliest ==
  (mainpc # "setup" /\ IsZero(startFlag)) =>
     cruiseStart = IF C3_EarliestTimes = {} THEN ZeroTime
                   ELSE CHOOSE m \in C3_EarliestTimes : \A x \in C3_EarliestTimes : m <= x

\* C4: Close() is not called on a feed before every driver has reported, and
\* once all have reported and the process has stopped, Close() has been called
\* exactly once on each feed.
C4_CloseOnceAfterAllDone ==
  /\ \A f \in FeedNames : closeCalls[f] > 0 => AllDone
  /\ \A f \in FeedNames : closeCalls[f] <= 1
  /\ (AllDone /\ proc # "running") => \A f \in FeedNames : closeCalls[f] = 1

\* C5: with warp > 0 the run goes on until every driver has sent its signal and
\* the coordinator has received one per feed: it never stops before that.
C5_RunsToCompletion == AllDone \/ ENABLED Next

\* the fire time of the record the cursor of f is on
C6_FireTime(f) == EmitTime(replayStart, Delta(TimeAt(i[f], data[f]), cruiseStart, warp))

\* C6: emissions of a feed happen at non-decreasing replay times, never before
\* the record's fire time replayStart + delay, and a record whose fire time has
\* passed when its timer is set is due at once.
C6_NeverEarly ==
  \A f \in FeedNames :
    /\ \A k \in 1..Len(log[f]) : log[f][k].at >= log[f][k].fire
    /\ \A a, b \in 1..Len(log[f]) : a < b => log[f][a].at <= log[f][b].at
    /\ pc[f] = "wait" =>
         /\ timer[f] >= C6_FireTime(f)
         /\ C6_FireTime(f) <= now => timer[f] <= now

\* the first record fired late, the second one's fire time had passed at its
\* turn and it was emitted in the same second
C6_Witness ==
  \E f \in FeedNames :
    /\ Len(log[f]) >= 2
    /\ log[f][1].at > log[f][1].fire
    /\ log[f][2].fire < log[f][1].at
    /\ log[f][2].at = log[f][1].at

\* a step in which an Emit() of the driver of f returns an error
C7_EmitFailed(f) == Len(log'[f]) = Len(log[f]) + 1 /\ log'[f][Len(log'[f])].err

\* C7: when Emit() returns an error the driver goes back to Next() with the
\* process running, no other driver's state changes, and a driver reports Done
\* only with its sequence exhausted.
C7_ContinuesAfterError ==
  /\ [][\A f \in FeedNames :
          C7_EmitFailed(f) =>
             /\ pc'[f] = "next" /\ i'[f] = i[f] /\ proc' = "running"
             /\ \A g \in FeedNames \ {f} :
                  /\ pc'[g] = pc[g] /\ i'[g] = i[g] /\ timer'[g] = timer[g]
                  /\ log'[g] = log[g] /\ file'[g] = file[g]]_vars
  /\ [](\A f \in FeedNames :
          (Len(log[f]) > 0 /\ log[f][Len(log[f])].err /\ log[f][Len(log[f])].fatal = "") =>
             pc[f] \in {"next", "wait", "done"})
  /\ [](\A f \in FeedNames : pc[f] = "done" => ~FeedNext(f, i[f], data[f]).ok)

\* a driver whose first Emit() failed has emitted its next record and reported
C7_Witness ==
  \E f \in FeedNames :
    /\ Len(log[f]) >= 2
    /\ log[f][1].err /\ ~log[f][2].err
    /\ pc[f] = "done"

\* C8: Close() returns, and afterwards the feed holds no open file or
\* connection, whatever was called before.
C8_CloseReleases ==
  ret.op = "Close" => (ret.fatal = "" /\ file[ret.f].st # "open")

\* C9: a Close() that follows a Close() changes nothing, closes no handle
\* again and returns no error.
C9_CloseIdempotent ==
  (ret.op = "Close" /\ ret.again) =>
     /\ file[ret.f] = ret.file0
     /\ "close" \notin ret.sys
     /\ ~ret.err

\* C10: Next() returns true and moves the cursor by one exactly when a record
\* is left; otherwise it returns false and leaves the cursor, and after a
\* false it never returns true again.
C10_NextContract ==
  ret.op = "Next" =>
     /\ ret.ok = (ret.i0 + 1 < Len(data[ret.f]))
     /\ ret.ok => i[ret.f] = ret.i0 + 1
     /\ ~ret.ok => i[ret.f] = ret.i0
     /\ ret.term0 => ~ret.ok

\* Next() called again on a feed with records after it had returned false
C10_Witness ==
  /\ ret.op = "Next" /\ ret.term0 /\ ~ret.ok
  /\ Len(data[ret.f]) > 0
  /\ i[ret.f] = Len(data[ret.f]) - 1

\* C11: the cursor of every feed stays between -1 and the number of records,
\* and whatever is called on a feed, only Next() changes its cursor, by
\* exactly one step forward.
C11_CursorForward ==
  /\ [](\A f \in FeedNames : -1 <= i[f] /\ i[f] <= Len(data[f]))
  /\ [][\A f \in FeedNames :
          i'[f] # i[f] => (ret'.op = "Next" /\ ret'.f = f /\ i'[f] = i[f] + 1)]_vars

\* the cursor is on the second record after a call that is not Next()
C11_Witness ==
  /\ ret.op \in {"Time", "Earliest", "Len", "Emit", "Close"}
  /\ i[ret.f] = 1

\* C12: Emit() with the cursor before the first record returns no error,
\* makes no system call (no directory, file, write or datagram) and leaves
\* the cursor and the output file or connection as they were.
C12_EmitBeforeFirst ==
  (ret.op = "Emit" /\ ret.i0 < 0) =>
     /\ ~ret.err /\ ret.fatal = "" /\ ret.sys = {}
     /\ i[ret.f] = ret.i0
     /\ file[ret.f] = ret.file0

\* Emit() called before any Next() on a feed that has records
C12_Witness ==
  /\ ret.op = "Emit" /\ ret.i0 = -1
  /\ Len(data[ret.f]) > 0

\* C17: every record handed to Emit() had the fire time replayStart +
\* (record time - cruiseStart) / warp, with the one cruiseStart and the one
\* replayStart of the run (the quotient cut to the unit of the clock).
C17_FireTimeFormula ==
  \A f \in FeedNames : \A k \in 1..Len(log[f]) :
    log[f][k].fire =
      replayStart + Quot((log[f][k].time - cruiseStart) * warp[2], warp[1])

\* C18: no driver ever stops the process with the panic on a negative delay.
C18_NoNegativeDelay == proc # "panic: delta < 0"

\* the record with cursor value k of feed f is not before the cruise origin
C19_Eligible(f, k) == ~Before(data[f][k + 1].time, cruiseStart)

\* C19: no record is handed to Emit() twice, and when the run can go no
\* further every record at or after the cruise origin has been handed to
\* Emit() by the driver of its feed.
C19_EmittedOnce ==
  /\ \A f \in FeedNames : \A a, b \in 1..Len(log[f]) :
       a # b => log[f][a].idx # log[f][b].idx
  /\ (mainpc # "setup" /\ ~ENABLED Next) =>
       \A f \in FeedNames : \A k \in 0..(Len(data[f]) - 1) :
         C19_Eligible(f, k) => \E n \in 1..Len(log[f]) : log[f][n].idx = k

\* the lines of the records of the underway feed, in the order of the records
C13_UnderwayLines ==
  LET d == data["underway"]
      F[n \in 0..Len(d)] == IF n = 0 THEN <<>> ELSE F[n - 1] \o d[n].data
  IN F[Len(d)]

\* unit p was discovered before unit q: EVT files, log events and underway
\* lines are numbered in discovery order, an SFL line is <<file, line>>
C13_Earlier(f, p, q) ==
  IF f = "sfl" THEN p[1] < q[1] \/ (p[1] = q[1] /\ p[2] < q[2]) ELSE p < q

\* C13: after construction the records of every feed are in non-decreasing
\* time order, whatever the discovery order, and units of equal time keep
\* their discovery order (for the underway feed: the lines inside the records).
C13_SortedStable ==
  /\ \A f \in FeedNames \ {"underway"} :
       pc[f] = "built" =>
         \A a, b \in 1..Len(data[f]) :
           a < b => /\ data[f][a].time <= data[f][b].time
                    /\ data[f][a].time = data[f][b].time =>
                         C13_Earlier(f, data[f][a].data, data[f][b].data)
  /\ pc["underway"] = "built" =>
       /\ \A a, b \in 1..Len(data["underway"]) :
            a < b => ~UnderwayBefore(data["underway"][b], data["underway"][a])
       /\ \A a, b \in 1..Len(C13_UnderwayLines) :
            a < b =>
              LET p == input["underway"][C13_UnderwayLines[a]]
                  q == input["underway"][C13_UnderwayLines[b]]
              IN /\ ~UnderwayBefore(q, p)
                 /\ (p.time = q.time /\ p.frac = q.frac) => p.data < q.data

\* three units discovered out of time order, two of them of equal time
C13_Witness ==
  \E f \in {"evt", "seaflowlog"} :
    /\ pc[f] = "built" /\ Len(data[f]) = 3
    /\ data[f][1].time = data[f][2].time
    /\ data[f][2].time < data[f][3].time
    /\ data[f][3].data = 1

\* the numbers of the accepted underway lines of second t
C14_LinesOf(t) ==
  {k \in 1..Len(input["underway"]) :
     input["underway"][k].res = "ok" /\ input["underway"][k].time = t}

\* the seconds that have accepted underway lines
C14_Seconds == {input["underway"][k].time : k \in {n \in 1..Len(input["underway"]) :
                                                     input["underway"][n].res = "ok"}}

\* exactly one record is keyed by second t and it holds each line of t once
C14_OneRecord(t) ==
  /\ Cardinality({k \in 1..Len(data["underway"]) : data["underway"][k].time = t}) = 1
  /\ \A r \in Range(data["underway"]) :
       r.time = t => /\ r.frac = 0
                     /\ Range(r.data) = C14_LinesOf(t)
                     /\ Len(r.data) = Cardinality(C14_LinesOf(t))

\* C14 as stated: the accepted lines of one second become exactly one record,
\* keyed by the second, whose lines are in their order in the input.
C14_JoinedInInputOrder ==
  pc["underway"] = "built" =>
    \A t \in C14_Seconds :
      /\ C14_OneRecord(t)
      /\ \A r \in Range(data["underway"]) :
           r.time = t => \A a, b \in 1..Len(r.data) : a < b => r.data[a] < r.data[b]

\* C14, amended: the accepted lines of one second become exactly one record,
\* keyed by the second, whose lines are in ascending order of their full
\* timestamps, lines of the same timestamp in their order in the input.
C14_JoinedInTimeOrder ==
  pc["underway"] = "built" =>
    \A t \in C14_Seconds :
      /\ C14_OneRecord(t)
      /\ \A r \in Range(data["underway"]) :
           r.time = t =>
             \A a, b \in 1..Len(r.data) :
               a < b =>
                 LET p == input["underway"][r.data[a]]
                     q == input["underway"][r.data[b]]
                 IN p.frac < q.frac \/ (p.frac = q.frac /\ p.data < q.data)

\* a record of three lines of one second, the later line first in the input
C14_Witness ==
  /\ pc["underway"] = "built"
  /\ \E r \in Range(data["underway"]) :
       /\ Len(r.data) = 3
       /\ r.data[1] > r.data[2]

\* the accepted underway records as they are handed to the coalescing loop
C15_Sorted == UnderwaySort(UnderwayAccepted(input["underway"]))

\* no two of the records handed to the coalescing loop share a second
C15_UniquePerSecond ==
  \A a, b \in 1..Len(C15_Sorted) : a # b => C15_Sorted[a].time # C15_Sorted[b].time

\* C15 as stated: coalescing records that are unique per second returns them
\* as they are (same number, times and payloads), and coalescing the result
\* again changes nothing.
C15_CoalesceNoOp ==
  pc["underway"] = "built" =>
    /\ C15_UniquePerSecond => data["underway"] = C15_Sorted
    /\ Coalesce(data["underway"]) = data["underway"]

\* C15, amended: coalescing records that are unique per second returns as many
\* records, each with its payload and with its time truncated to the whole
\* second; coalescing the result again changes nothing.
C15_CoalesceTruncates ==
  pc["underway"] = "built" =>
    /\ C15_UniquePerSecond =>
         /\ Len(data["underway"]) = Len(C15_Sorted)
         /\ \A k \in 1..Len(C15_Sorted) :
              /\ data["underway"][k].data = C15_Sorted[k].data
              /\ data["underway"][k].time = C15_Sorted[k].time
              /\ data["underway"][k].frac = 0
    /\ Coalesce(data["underway"]) = data["underway"]

\* two records of different seconds, one of them read with a part of a second
C15_Witness ==
  /\ pc["underway"] = "built"
  /\ C15_UniquePerSecond
  /\ Len(data["underway"]) = 2
  /\ \E k \in 1..Len(C15_Sorted) : C15_Sorted[k].frac > 0

\* the units of the input of f (for the SFL feed: the data lines of the files
\* that have a header), and which of them are malformed
C16_Units(f) ==
  IF f = "sfl"
  THEN UNION {Range(input[f][k].lines) : k \in {n \in 1..Len(input[f]) : input[f][n].hdr}}
  ELSE Range(input[f])

C16_Malformed(f, u) ==
  CASE f = "evt" -> IsZero(u.time)
    [] f = "sfl" -> u.kind # "ok"
    [] f = "underway" -> u.res = "err"
    [] f = "seaflowlog" -> u.name = "unhandled"

C16_WellFormed(f, u) ==
  CASE f = "evt" -> ~IsZero(u.time)
    [] f = "sfl" -> u.kind = "ok"
    [] f = "underway" -> u.res = "ok"
    [] f = "seaflowlog" -> u.name # "unhandled"

\* the records of f that carry unit u
C16_RecordsOf(f, u) ==
  {k \in 1..Len(data[f]) :
     IF f = "underway" THEN u.data \in Range(data[f][k].data) ELSE data[f][k].data = u.data}

\* the number of lines of the underway records, unit u counted as often as
\* it occurs
C16_Occurrences(u) ==
  Cardinality({<<k, n>> \in (1..Len(data["underway"])) \X (1..MaxUnits + 1) :
                 /\ n <= Len(data["underway"][k].data)
                 /\ data["underway"][k].data[n] = u.data})

\* C16: construction never stops the process; each malformed unit of the
\* input adds exactly one Warning, and every well-formed unit is in exactly
\* one record, with its own time (its second, in the underway feed) and
\* payload; the underway records are those of the input without the lines the
\* parser fails on.
C16_MalformedIsolated ==
  \A f \in FeedNames :
    pc[f] = "built" =>
      /\ proc = "running"
      /\ Len(warnings[f]) = Cardinality({u \in C16_Units(f) : C16_Malformed(f, u)})
      /\ \A u \in C16_Units(f) :
           C16_Malformed(f, u) =>
             Cardinality({k \in 1..Len(warnings[f]) : warnings[f][k] = u}) = 1
      /\ \A u \in C16_Units(f) :
           C16_WellFormed(f, u) =>
             /\ Cardinality(C16_RecordsOf(f, u)) = 1
             /\ \A k \in C16_RecordsOf(f, u) : data[f][k].time = u.time
             /\ f = "underway" => C16_Occurrences(u) = 1
      /\ f = "underway" =>
           data[f] = NewUnderway(SelectSeq(input[f], LAMBDA u : ~C16_Malformed(f, u)))

\* a file of three data lines, the first of them malformed: one Warning and
\* the two other lines as records
C16_Witness ==
  /\ pc["sfl"] = "built"
  /\ Len(input["sfl"]) = 1 /\ Len(input["sfl"][1].lines) = 3
  /\ input["sfl"][1].lines[1].kind # "ok"
  /\ Len(warnings["sfl"]) = 1
  /\ Len(data["sfl"]) = 2

\* C20: every underway line that is not accepted, whether the parser returns
\* an error for it or parses it without marking it OK, is a Warning of the
\* feed and in no record, and the lines after it are still read.
C20_RejectedWarned ==
  pc["underway"] = "built" =>
    /\ \A u \in Range(input["underway"]) :
         u.res # "ok" =>
           /\ Cardinality({k \in 1..Len(warnings["underway"]) :
                             warnings["underway"][k] = u}) = 1
           /\ \A r \in Range(data["underway"]) : u.data \notin Range(r.data)
    /\ \A u \in Range(input["underway"]) :
         u.res = "ok" => \E r \in Range(data["underway"]) : u.data \in Range(r.data)

\* C22: an EVT file whose name gives no timestamp adds one Warning and is one
\* record of the feed, with the zero time and before every record that has a
\* parsed time; Earliest() of the feed is then the zero time.
C22_BadNameKept ==
  pc["evt"] = "built" =>
    /\ \A u \in Range(input["evt"]) :
         IsZero(u.time) =>
           /\ Cardinality({k \in 1..Len(warnings["evt"]) : warnings["evt"][k] = u}) = 1
           /\ Cardinality({k \in 1..Len(data["evt"]) : data["evt"][k].data = u.data}) = 1
           /\ \A k \in 1..Len(data["evt"]) :
                data["evt"][k].data = u.data =>
                  /\ IsZero(data["evt"][k].time)
                  /\ \A j \in 1..Len(data["evt"]) :
                       ~IsZero(data["evt"][j].time) => k < j
    /\ (\E u \in Range(input["evt"]) : IsZero(u.time)) =>
         IsZero(Earliest(data["evt"]))

\* three files, the second discovered with a name that does not parse: it is
\* the first record
C22_Witness ==
  /\ pc["evt"] = "built" /\ Len(data["evt"]) = 3
  /\ ~IsZero(input["evt"][1].time) /\ IsZero(input["evt"][2].time)
  /\ ~IsZero(input["evt"][3].time)
  /\ data["evt"][1].data = 2
  /\ Len(warnings["evt"]) = 1

\* C21: every SFL file with a record in the feed has exactly one record that
\* carries its header, and that record is ahead of the file's other records in
\* the sorted sequence the driver emits in cursor order, so the header reaches
\* the output file before any data line of the file.
C21_HeaderFirst ==
  pc["sfl"] = "built" =>
    \A k \in 0..(Len(input["sfl"]) - 1) :
      LET own == {n \in 1..Len(data["sfl"]) : data["sfl"][n].idx = k}
      IN own # {} =>
           \E h \in own :
             /\ data["sfl"][h].hdr
             /\ \A n \in own \ {h} : ~data["sfl"][n].hdr /\ h < n

\* C23: every SFL record's idx is an index into s.paths, and s.paths[idx] is
\* the file the record was read from, so OutPath of that entry is the base
\* name of the record's own file.
C23_IdxNamesOwnFile ==
  pc["sfl"] = "built" =>
    \A n \in 1..Len(data["sfl"]) :
      LET rec == data["sfl"][n]
      IN /\ rec.idx + 1 <= Len(paths)
         /\ OutPath(paths[rec.idx + 1]) = rec.data[1]

\* C24: an Emit() of the SFL feed for a record whose output path is not the
\* path of the file it has open returns: the process goes on, and unless the
\* call reports an error the feed then holds the one handle of the new file,
\* to which the record was written.
C24_SwitchReturns ==
  (/\ ret.op = "Emit" /\ ret.f = "sfl" /\ ret.i0 >= 0
   /\ ret.file0.st = "open"
   /\ data["sfl"][ret.i0 + 1].idx + 1 <= Len(paths)
   /\ paths[data["sfl"][ret.i0 + 1].idx + 1].tsok
   /\ OutPath(paths[data["sfl"][ret.i0 + 1].idx + 1]) # ret.file0.name)
  => /\ ret.fatal = ""
     /\ proc = "running"
     /\ ~ret.err =>
          /\ file["sfl"] = Opened(OutPath(paths[data["sfl"][ret.i0 + 1].idx + 1]))
          /\ "write" \in ret.sys

====
